---- MODULE Spec2Model ----
(***************************************************************************)
(* Model of driver/cio.py: CIOBlockDeviceAPI, an IBlockDeviceAPI adapter   *)
(* for a CIO storage backend.                                              *)
(*                                                                         *)
(* The backend calls of the adapter are commented-out TODOs, so several    *)
(* names the method bodies read are never assigned.  The model follows     *)
(* Python's rules: reading a name that is bound in no enclosing scope      *)
(* raises NameError at that statement and the exception propagates to the  *)
(* caller of the operation.                                                *)
(***************************************************************************)
EXTENDS Integers, Sequences, FiniteSets, TLC

\* ------------------------------------------------------------------ bounds
MaxThreads == 2
MaxVolumes == 2
MaxInstances == 1

Threads == 1..MaxThreads

\* Identifiers are opaque text; the tables give the text of the k-th one.
VolumeNames == <<"vol-1", "vol-2", "vol-3", "vol-4">>
InstanceNames == <<"i-1", "i-2", "i-3", "i-4">>
VolumeIds == {VolumeNames[k] : k \in 1..MaxVolumes}
Instances == {InstanceNames[k] : k \in 1..MaxInstances}

\* Python's None, where a field holds either None or text.
None == "None"

\* ------------------------------------------------------------------ values
\* The outcome of a call: a returned value or a raised exception.
Return(v) == [kind |-> "return", exc |-> None, val |-> v]
Raise(e) == [kind |-> "raise", exc |-> e, val |-> <<>>]
NoResult == [kind |-> "none", exc |-> None, val |-> <<>>]

\* Text the code parses (the UUID tags) is a Python 2 str or unicode
\* object: its type and its characters, each character its code point (a
\* byte for str).  PyNone is None where text is expected.
Str(chars) == [type |-> "str", chars |-> chars]
Unicode(chars) == [type |-> "unicode", chars |-> chars]
PyNone == [type |-> "NoneType", chars |-> <<>>]

Rep(c, n) == [i \in 1..n |-> c]

\* C isspace, which long uses on a str: \t \n \v \f \r and the space.
CSpace == (9..13) \cup {32}

\* Py_UNICODE_ISSPACE (Python 2.7, Unicode 5.2), used on unicode text.
UnicodeSpace ==
    (9..13) \cup (28..32) \cup {133, 160, 5760, 6158} \cup (8192..8202)
    \cup {8232, 8233, 8239, 8287, 12288}

\* The first code point of each run of ten decimal digits, 0 to 9, in
\* Unicode 5.2; the mathematical digits 1D7CE..1D7FF are five such runs, and
\* 19DA is a digit one on its own.
DecimalRuns ==
    {48, 1632, 1776, 1984, 2406, 2534, 2662, 2790, 2918, 3046, 3174, 3302,
     3430, 3664, 3792, 3872, 4160, 4240, 6112, 6160, 6470, 6608, 6784, 6800,
     6992, 7088, 7232, 7248, 42528, 43216, 43264, 43472, 43600, 44016,
     65296, 66720, 120782, 120792, 120802, 120812, 120822}

\* Py_UNICODE_TODECIMAL: the digit's value, or -1 for any other character.
ToDecimal(ch) ==
    IF \E run \in DecimalRuns : ch \in run..(run + 9)
    THEN ch - (CHOOSE run \in DecimalRuns : ch \in run..(run + 9))
    ELSE IF ch = 6618 THEN 1
    ELSE -1

\* PyUnicode_EncodeDecimal, by which long reads unicode text: a space for
\* each Unicode space, the ASCII digit for each decimal digit, other
\* characters below 256 (and not 0) as they are.  Any other character is
\* not encodable: UnicodeEncodeError.
Encodable(chars) ==
    \A i \in 1..Len(chars) :
        \/ chars[i] \in UnicodeSpace
        \/ ToDecimal(chars[i]) >= 0
        \/ (0 < chars[i] /\ chars[i] < 256)

EncodeDecimal(chars) ==
    [i \in 1..Len(chars) |->
        IF chars[i] \in UnicodeSpace THEN 32
        ELSE IF ToDecimal(chars[i]) >= 0 THEN 48 + ToDecimal(chars[i])
        ELSE chars[i]]

\* _PyLong_DigitValue: 0-9, a-z and A-Z are the digits 0 to 35; any other
\* character is no digit in any base.
DigitValue(c) ==
    IF c \in 48..57 THEN c - 48
    ELSE IF c \in 97..122 THEN c - 87
    ELSE IF c \in 65..90 THEN c - 55
    ELSE 37

\* text.replace(pat, ''): every occurrence of pat, left to right, removed.
RECURSIVE Remove(_, _)
Remove(text, pat) ==
    IF Len(text) < Len(pat) THEN text
    ELSE IF SubSeq(text, 1, Len(pat)) = pat
         THEN Remove(SubSeq(text, Len(pat) + 1, Len(text)), pat)
         ELSE <<Head(text)>> \o Remove(Tail(text), pat)

\* text.lstrip(chars), text.rstrip(chars), text.strip(chars).
RECURSIVE LStrip(_, _)
LStrip(text, chars) ==
    IF text # <<>> /\ Head(text) \in chars THEN LStrip(Tail(text), chars)
    ELSE text

RECURSIVE RStrip(_, _)
RStrip(text, chars) ==
    IF text # <<>> /\ text[Len(text)] \in chars
    THEN RStrip(SubSeq(text, 1, Len(text) - 1), chars)
    ELSE text

Strip(text, chars) == RStrip(LStrip(text, chars), chars)

\* PyLong_FromString(buffer, base 16): white space, an optional sign + or -
\* (which white space may follow), an optional 0x or 0X, one or more
\* hexadecimal digits, an optional l or L, white space.  digits collects the
\* digits' values; ok is FALSE where the text is no number (ValueError).
RECURSIVE Scan(_, _, _)
Scan(text, phase, digits) ==
    IF text = <<>> THEN [ok |-> digits # <<>>, digits |-> digits]
    ELSE CASE phase = "space" ->
                IF Head(text) \in CSpace
                THEN Scan(Tail(text), "space", digits)
                ELSE IF Head(text) \in {43, 45}
                THEN Scan(Tail(text), "signed", digits)
                ELSE Scan(text, "prefix", digits)
           [] phase = "signed" ->
                IF Head(text) \in CSpace
                THEN Scan(Tail(text), "signed", digits)
                ELSE Scan(text, "prefix", digits)
           [] phase = "prefix" ->
                IF Len(text) >= 2 /\ text[1] = 48 /\ text[2] \in {120, 88}
                THEN Scan(SubSeq(text, 3, Len(text)), "digits", digits)
                ELSE Scan(text, "digits", digits)
           [] phase = "digits" ->
                IF DigitValue(Head(text)) < 16
                THEN Scan(Tail(text), "digits",
                          Append(digits, DigitValue(Head(text))))
                ELSE IF Head(text) \in {108, 76} /\ digits # <<>>
                THEN Scan(Tail(text), "trail", digits)
                ELSE Scan(text, "trail", digits)
           [] OTHER ->
                IF Head(text) \in CSpace
                THEN Scan(Tail(text), "trail", digits)
                ELSE [ok |-> FALSE, digits |-> digits]

\* The number in a buffer of bytes: the scan's result, and whether the
\* number is below zero.
ParseLong16(buffer) ==
    [ok |-> Scan(buffer, "space", <<>>).ok,
     negative |-> /\ LStrip(buffer, CSpace) # <<>>
                  /\ Head(LStrip(buffer, CSpace)) = 45
                  /\ LStrip(Scan(buffer, "space", <<>>).digits, {0}) # <<>>,
     digits |-> Scan(buffer, "space", <<>>).digits]

\* The text uuid.UUID hands to long: "urn:" and "uuid:" removed, braces
\* stripped from both ends, hyphens removed.
CleanHex(chars) ==
    Remove(Strip(Remove(Remove(chars, <<117, 114, 110, 58>>),
                        <<117, 117, 105, 100, 58>>),
                 {123, 125}),
           <<45>>)

\* The bytes long scans: a str as it is, unicode text through
\* PyUnicode_EncodeDecimal.
Buffer(type, chars) ==
    IF type = "unicode" THEN EncodeDecimal(chars) ELSE chars

\* uuid.UUID(text).  None: TypeError.  The cleaned text must be 32
\* characters (ValueError) that long(., 16) accepts (UnicodeEncodeError, a
\* ValueError, for unicode text that cannot be encoded; ValueError for text
\* that is no number) with a value in 0 .. 2^128 - 1 (ValueError).  The value
\* is kept as its 32 hexadecimal digits, each 0 to 15, most significant first.
UUID(text) ==
    IF text.type = "NoneType" THEN Raise("TypeError")
    ELSE IF Len(CleanHex(text.chars)) # 32 THEN Raise("ValueError")
    ELSE IF text.type = "unicode" /\ ~Encodable(CleanHex(text.chars))
    THEN Raise("UnicodeEncodeError")
    ELSE IF ~ParseLong16(Buffer(text.type, CleanHex(text.chars))).ok
    THEN Raise("ValueError")
    ELSE IF ParseLong16(Buffer(text.type, CleanHex(text.chars))).negative
    THEN Raise("ValueError")
    ELSE Return([int |->
            Rep(0, 32 - Len(ParseLong16(Buffer(text.type,
                                               CleanHex(text.chars))).digits))
            \o ParseLong16(Buffer(text.type, CleanHex(text.chars))).digits])

\* The character 0-9, a-f of a hexadecimal digit.
HexChar(d) == IF d < 10 THEN 48 + d ELSE 87 + d

\* unicode(uuid): the digits in lower case, in groups of 8-4-4-4-12 joined
\* by hyphens, as unicode text.
unicode(uuid) ==
    Unicode([i \in 1..36 |->
        IF i \in {9, 14, 19, 24} THEN 45
        ELSE HexChar(uuid.int[i - Cardinality({9, 14, 19, 24} \cap 1..i)])])

DATASET_ID_LABEL == "flocker-dataset-id"
METADATA_VERSION_LABEL == "flocker-metadata-version"
CLUSTER_ID_LABEL == "flocker-cluster-id"

\* self.cluster_id, set by __init__, and the id of some other cluster.
\* UUID c0000000-0000-0000-0000-00000000000a, and ...0b for the other one.
cluster_id == [int |-> <<12>> \o Rep(0, 30) \o <<10>>]
other_cluster_id == [int |-> <<12>> \o Rep(0, 30) \o <<11>>]

\* The dataset ids: UUID d0000000-0000-0000-0000-00000000000k.
Dataset(k) == [int |-> <<13>> \o Rep(0, 30) \o <<k>>]
DatasetIds == {Dataset(1), Dataset(2)}
NoDataset == [int |-> <<>>]

\* Sizes a caller passes to create_volume, in bytes (1 GiB).
Sizes == {2^30}

\* --------------------------------------------------------- name resolution
\* Names bound at module scope by the imports, assignments, classes and
\* functions of cio.py.
ModuleNames == {"check_output", "threading", "time", "logging", "UUID",
                "Byte", "GiB", "get_instance_metadata", "PRecord", "field",
                "pset", "pmap", "implementer", "FilePath", "Message",
                "IBlockDeviceAPI", "BlockDeviceVolume", "UnknownVolume",
                "AlreadyAttachedVolume", "UnattachedVolume",
                "DATASET_ID_LABEL", "METADATA_VERSION_LABEL",
                "CLUSTER_ID_LABEL", "EliotLogHandler",
                "AttachedUnexpectedDevice", "cio_client",
                "_blockdevicevolume_from_cio_volume", "_is_cluster_volume",
                "CIOBlockDeviceAPI"}

\* Names of the builtins module (Python 2) that cio.py reads.
Builtins == {"unicode", "int", "vars", "object", "Exception", "True",
             "False", "None"}

\* A name is looked up in the function's locals, then in the module's
\* globals, then in the builtins.
IsBound(name, locals) ==
    name \in locals \/ name \in ModuleNames \/ name \in Builtins

\* ------------------------------------------------------------ the backend
\* The text of the dataset id the k-th backend volume is tagged with.
DatasetNames == [k \in 1..4 |-> unicode(Dataset(k))]

\* The tags create_volume builds for a volume (the dict "metadata").
Metadata(dataset_id) ==
    (METADATA_VERSION_LABEL :> Str(<<49>>))
    @@ (CLUSTER_ID_LABEL :> unicode(cluster_id))
    @@ (DATASET_ID_LABEL :> unicode(dataset_id))

\* A volume as the backend reports it: id, size in GiB, attach_data and tags.
\* membership is "mine", "other" or "absent": the cluster tag it carries.
CioVolume(k, instance, membership) ==
    [id |-> VolumeNames[k],
     size |-> 1,
     attach_data |-> [instance_id |-> instance,
                      device |-> IF instance = None THEN None ELSE "/dev/xvdf"],
     tags |-> IF membership = "absent"
              THEN (METADATA_VERSION_LABEL :> Str(<<49>>))
                   @@ (DATASET_ID_LABEL :> DatasetNames[k])
              ELSE (METADATA_VERSION_LABEL :> Str(<<49>>))
                   @@ (DATASET_ID_LABEL :> DatasetNames[k])
                   @@ (CLUSTER_ID_LABEL :>
                         IF membership = "mine" THEN unicode(cluster_id)
                         ELSE unicode(other_cluster_id))]

\* The instance metadata service of the node the adapter runs on.
instance_metadata == [key \in {"instance-id"} |-> InstanceNames[1]]

\* ------------------------------------------------------- module functions
\* Local names of _blockdevicevolume_from_cio_volume: its one parameter.
blockdevicevolume_locals == {"cio_volume"}

\* _blockdevicevolume_from_cio_volume: the keyword arguments are evaluated
\* in order; the size argument reads ebs_volume, which no scope binds.  The
\* dataset_id argument raises KeyError without the tag and what UUID raises
\* when the tag is no UUID.
blockdevicevolume_from_cio_volume(cio_volume) ==
    IF ~IsBound("ebs_volume", blockdevicevolume_locals)
    THEN Raise("NameError")
    ELSE IF DATASET_ID_LABEL \notin DOMAIN cio_volume.tags
    THEN Raise("KeyError")
    ELSE LET dataset_id == UUID(cio_volume.tags[DATASET_ID_LABEL]) IN
         IF dataset_id.kind = "raise" THEN dataset_id
         ELSE Return(<<[blockdevice_id |-> cio_volume.id,
                        size |-> cio_volume.size * (2^30),
                        attached_to |-> cio_volume.attach_data.instance_id,
                        dataset_id |-> dataset_id.val]>>)

\* _is_cluster_volume: tags.get(CLUSTER_ID_LABEL) is None when the tag is
\* missing (or is None), and the answer False; otherwise the tag is parsed
\* by UUID, which may raise ValueError, and the result compared with the
\* cluster's id.
is_cluster_volume(cluster, cio_volume) ==
    IF /\ CLUSTER_ID_LABEL \in DOMAIN cio_volume.tags
       /\ cio_volume.tags[CLUSTER_ID_LABEL].type # "NoneType"
    THEN LET actual_cluster_id == UUID(cio_volume.tags[CLUSTER_ID_LABEL]) IN
         IF actual_cluster_id.kind = "raise" THEN actual_cluster_id
         ELSE IF actual_cluster_id.val = cluster THEN Return(TRUE)
         ELSE Return(FALSE)
    ELSE Return(FALSE)

VARIABLES volumes, lock, pc, call, result

vars == <<volumes, lock, pc, call, result>>

\* ---------------------------------------------------------------- methods
\* compute_instance_id: the instance id the metadata service reports.
compute_instance_id == instance_metadata["instance-id"]

\* _get_cio_volume with the commented-out assignment of all_volumes restored.
get_cio_volume_locals_assigned == {"self", "blockdevice_id", "volume",
                                   "all_volumes"}

\* Local names of _get_cio_volume.  The assignment of all_volumes is inside
\* the TODO comment, so all_volumes is not among them.
get_cio_volume_locals == {"self", "blockdevice_id", "volume"}

\* _get_cio_volume: the for statement reads all_volumes first.  Were it
\* bound to the backend's volumes, the loop would return the match or fall
\* through to raise UnknownVolume.
get_cio_volume(blockdevice_id) ==
    IF ~IsBound("all_volumes", get_cio_volume_locals)
    THEN Raise("NameError")
    ELSE IF \E volume \in volumes : volume.id = blockdevice_id
         THEN Return(<<CHOOSE volume \in volumes : volume.id = blockdevice_id>>)
         ELSE Raise("UnknownVolume")

\* What the statement at line 195 can raise: the token 2b"--bytes" is not
\* Python (SyntaxError); with the token repaired the list expression reads
\* device_name, which no scope binds (NameError).
Line195Errors == {"SyntaxError", "NameError"}

create_volume_locals == {"self", "dataset_id", "size", "redundancy",
                         "min_iops", "max_iops", "command", "metadata"}

\* create_volume: fails while building "command"; the tags in "metadata"
\* are built after that and never sent to the backend (create_tags is a
\* TODO comment); the return statement reads requested_volume.
create_volume(dataset_id, size, e) ==
    IF ~IsBound("device_name", create_volume_locals)
    THEN Raise(e)
    ELSE IF ~IsBound("requested_volume", create_volume_locals)
         THEN Raise("NameError")
         ELSE Return(<<[blockdevice_id |-> None, size |-> size,
                        attached_to |-> None, dataset_id |-> dataset_id]>>)

list_volumes_locals == {"self", "volumes"}

\* list_volumes: the loop header is a TODO comment, so the if statement
\* runs once and reads cio_volume, which no scope binds.
list_volumes ==
    IF ~IsBound("cio_volume", list_volumes_locals)
    THEN Raise("NameError")
    ELSE LET cio_volume == CHOOSE v \in volumes : TRUE
             member == is_cluster_volume(cluster_id, cio_volume)
         IN  IF member.kind = "raise" THEN member
             ELSE IF ~member.val THEN Return(<<>>)
             ELSE blockdevicevolume_from_cio_volume(cio_volume)

attach_volume_locals == {"self", "blockdevice_id", "attach_to",
                         "cio_volume", "volume"}

\* attach_volume: lookup, conversion, then "return attached_volume"; the
\* AlreadyAttachedVolume test and the attach call are TODO comments.
attach_volume(blockdevice_id, attach_to) ==
    LET cio_volume == get_cio_volume(blockdevice_id) IN
    IF cio_volume.kind = "raise" THEN cio_volume
    ELSE LET volume == blockdevicevolume_from_cio_volume(cio_volume.val[1]) IN
         IF volume.kind = "raise" THEN volume
         ELSE IF ~IsBound("attached_volume", attach_volume_locals)
              THEN Raise("NameError")
              ELSE Return(<<[volume.val[1] EXCEPT !.attached_to = attach_to]>>)

\* detach_volume: lookup only; the UnattachedVolume test and the detach
\* call are TODO comments, so the method then returns None.
detach_volume(blockdevice_id) ==
    LET cio_volume == get_cio_volume(blockdevice_id) IN
    IF cio_volume.kind = "raise" THEN cio_volume ELSE Return(<<>>)

\* destroy_volume: lookup only; the delete call is a TODO comment.
destroy_volume(blockdevice_id) ==
    LET cio_volume == get_cio_volume(blockdevice_id) IN
    IF cio_volume.kind = "raise" THEN cio_volume ELSE Return(<<>>)

get_device_path_locals == {"self", "blockdevice_id", "cio_volume", "volume",
                           "compute_instance_id"}

\* get_device_path: lookup, conversion, the two attachment tests, then a
\* call of _expected_device, which no scope binds.
get_device_path(blockdevice_id) ==
    LET cio_volume == get_cio_volume(blockdevice_id) IN
    IF cio_volume.kind = "raise" THEN cio_volume
    ELSE LET volume == blockdevicevolume_from_cio_volume(cio_volume.val[1]) IN
         IF volume.kind = "raise" THEN volume
         ELSE IF volume.val[1].attached_to = None
              THEN Raise("UnattachedVolume")
              ELSE IF volume.val[1].attached_to # compute_instance_id
                   THEN Raise("Exception")
                   ELSE IF ~IsBound("_expected_device", get_device_path_locals)
                        THEN Raise("NameError")
                        ELSE Return(<<cio_volume.val[1].attach_data.device>>)

\* ----------------------------------------------------------- the machine
\* The calls a thread can make on the adapter, with their arguments.
Calls ==
    [op : {"create_volume"}, blockdevice_id : {None}, attach_to : {None},
     dataset_id : DatasetIds, size : Sizes]
    \cup [op : {"list_volumes"}, blockdevice_id : {None}, attach_to : {None},
          dataset_id : {NoDataset}, size : {0}]
    \cup [op : {"attach_volume"}, blockdevice_id : VolumeIds,
          attach_to : Instances, dataset_id : {NoDataset}, size : {0}]
    \cup [op : {"detach_volume", "destroy_volume", "get_device_path"},
          blockdevice_id : VolumeIds, attach_to : {None},
          dataset_id : {NoDataset}, size : {0}]

NoCall == [op |-> None, blockdevice_id |-> None, attach_to |-> None,
           dataset_id |-> NoDataset, size |-> 0]

\* The backends the adapter can be started against: any subset of the
\* volume ids present, each attached to an instance or not, and tagged for
\* this cluster, for another one, or not at all.
Backends ==
    {{CioVolume(k, instance[k], membership[k]) : k \in present} :
        present \in SUBSET (1..MaxVolumes),
        instance \in [1..MaxVolumes -> {None} \cup Instances],
        membership \in [1..MaxVolumes -> {"mine", "other", "absent"}]}

\* __init__: cluster_id is stored and a new, unlocked threading.Lock made.
Init ==
    /\ volumes \in Backends
    /\ lock = "unlocked"
    /\ pc = [t \in Threads |-> "idle"]
    /\ call = [t \in Threads |-> NoCall]
    /\ result = [t \in Threads |-> NoResult]

\* A method that took self.lock on entry.
BeginCallLocking(t, c) ==
    /\ pc[t] \in {"idle", "done"}
    /\ lock = "unlocked"
    /\ lock' = "locked"
    /\ pc' = [pc EXCEPT ![t] = "called"]
    /\ call' = [call EXCEPT ![t] = c]
    /\ result' = [result EXCEPT ![t] = NoResult]
    /\ UNCHANGED volumes

\* Thread t enters a method of the adapter.  No method touches self.lock.
BeginCall(t, c) ==
    /\ pc[t] \in {"idle", "done"}
    /\ pc' = [pc EXCEPT ![t] = "called"]
    /\ call' = [call EXCEPT ![t] = c]
    /\ result' = [result EXCEPT ![t] = NoResult]
    /\ UNCHANGED <<volumes, lock>>

\* Thread t's call ends with the given outcome.  No method reaches a
\* backend call, so the backend's volumes stay as they are.
Finish(t, outcome) ==
    /\ pc' = [pc EXCEPT ![t] = "done"]
    /\ result' = [result EXCEPT ![t] = outcome]
    /\ UNCHANGED <<volumes, lock, call>>

CreateVolume(t) ==
    /\ pc[t] = "called" /\ call[t].op = "create_volume"
    /\ \E e \in Line195Errors :
          Finish(t, create_volume(call[t].dataset_id, call[t].size, e))

ListVolumes(t) ==
    /\ pc[t] = "called" /\ call[t].op = "list_volumes"
    /\ Finish(t, list_volumes)

AttachVolume(t) ==
    /\ pc[t] = "called" /\ call[t].op = "attach_volume"
    /\ Finish(t, attach_volume(call[t].blockdevice_id, call[t].attach_to))

DetachVolume(t) ==
    /\ pc[t] = "called" /\ call[t].op = "detach_volume"
    /\ Finish(t, detach_volume(call[t].blockdevice_id))

DestroyVolume(t) ==
    /\ pc[t] = "called" /\ call[t].op = "destroy_volume"
    /\ Finish(t, destroy_volume(call[t].blockdevice_id))

GetDevicePath(t) ==
    /\ pc[t] = "called" /\ call[t].op = "get_device_path"
    /\ Finish(t, get_device_path(call[t].blockdevice_id))

Next ==
    \E t \in Threads :
        \/ \E c \in Calls : BeginCall(t, c)
        \/ CreateVolume(t)
        \/ ListVolumes(t)
        \/ AttachVolume(t)
        \/ DetachVolume(t)
        \/ DestroyVolume(t)
        \/ GetDevicePath(t)

Spec == Init /\ [][Next]_vars

\* ----------------------------------------------------------------- claims
\* The methods whose first statement is the lookup _get_cio_volume.
LookupOps == {"attach_volume", "detach_volume", "destroy_volume",
              "get_device_path"}

\* The error kinds the adapter names.
NamedErrors == {"UnknownVolume", "AlreadyAttachedVolume", "UnattachedVolume",
                "AttachedUnexpectedDevice"}

\* Thread t's call ends in this step.
Finishes(t) == pc[t] = "called" /\ pc'[t] = "done"

Known(blockdevice_id) == \E v \in volumes : v.id = blockdevice_id

AttachedIn(blockdevice_id) ==
    \E v \in volumes : /\ v.id = blockdevice_id
                       /\ v.attach_data.instance_id # None

\* C1: a call of attach_volume, detach_volume, destroy_volume or
\* get_device_path with a blockdevice_id that matches no backend volume ends
\* by raising UnknownVolume and leaves the backend's volumes unchanged.
C1_UnknownVolumeRaised ==
    [][\A t \in Threads :
          (Finishes(t) /\ call[t].op \in LookupOps
                       /\ ~Known(call[t].blockdevice_id))
          => (result'[t] = Raise("UnknownVolume") /\ volumes' = volumes)]_vars

\* C2: attach_volume on an existing volume that is already attached raises
\* AlreadyAttachedVolume and leaves the volume's attachment unchanged.
C2_AlreadyAttachedRaised ==
    [][\A t \in Threads :
          (Finishes(t) /\ call[t].op = "attach_volume"
                       /\ AttachedIn(call[t].blockdevice_id))
          => (result'[t] = Raise("AlreadyAttachedVolume")
              /\ volumes' = volumes)]_vars

\* C3: detach_volume on an existing volume that is not attached raises
\* UnattachedVolume and the volume stays unattached.
C3_UnattachedRaised ==
    [][\A t \in Threads :
          (Finishes(t) /\ call[t].op = "detach_volume"
                       /\ Known(call[t].blockdevice_id)
                       /\ ~AttachedIn(call[t].blockdevice_id))
          => (result'[t] = Raise("UnattachedVolume")
              /\ volumes' = volumes)]_vars

\* C4: once a create_volume(dataset_id, size) call has run, the backend
\* holds a volume carrying the tags {metadata version '1', this cluster's
\* id, dataset_id}, and list_volumes returns a volume with that dataset_id.
C4_CreateStoresTags ==
    \A t \in Threads :
        (pc[t] = "done" /\ call[t].op = "create_volume")
        => /\ \E v \in volumes : /\ v.tags = Metadata(call[t].dataset_id)
                                 /\ is_cluster_volume(cluster_id, v)
                                    = Return(TRUE)
           /\ list_volumes.kind = "return"
           /\ \E i \in 1..Len(list_volumes.val) :
                 list_volumes.val[i].dataset_id = call[t].dataset_id

\* C5: no call of any adapter operation ends by raising UnknownVolume,
\* AlreadyAttachedVolume, UnattachedVolume or AttachedUnexpectedDevice.
C5_NoNamedErrorRaised ==
    \A t \in Threads :
        result[t].kind = "raise" => result[t].exc \notin NamedErrors

\* C5 witness: a get_device_path call for an id the backend does not hold,
\* and another for an unattached volume, have ended by raising.
C5_Witness ==
    \E t, u \in Threads :
        /\ pc[t] = "done" /\ call[t].op = "get_device_path"
        /\ ~Known(call[t].blockdevice_id)
        /\ result[t].kind = "raise"
        /\ pc[u] = "done" /\ call[u].op = "get_device_path"
        /\ Known(call[u].blockdevice_id)
        /\ ~AttachedIn(call[u].blockdevice_id)
        /\ result[u].kind = "raise"

\* C6: the lock made by __init__ is free in every reachable state, whatever
\* the threads are doing.
C6_LockNeverHeld == lock = "unlocked"

\* C6 witness: two threads are inside methods of the adapter at once, an
\* attach and a destroy of the same volume, both past entry and before their
\* lookup; the lock is free.
C6_Witness ==
    \E t, u \in Threads :
        /\ t # u
        /\ pc[t] = "called" /\ call[t].op = "attach_volume"
        /\ pc[u] = "called" /\ call[u].op = "destroy_volume"
        /\ call[t].blockdevice_id = call[u].blockdevice_id
        /\ lock = "unlocked"

====
